---- MODULE Spec2Model ----
(***************************************************************************)
(* GST Working Papers Generator (src/app.py).                              *)
(*                                                                         *)
(* The Streamlit script runs top to bottom on every interaction: upload    *)
(* guard, the two bank adapters, the ledger merge, quarter detection,      *)
(* classification, the editable ledger, the GST summary and the Excel      *)
(* export.  Every action below is one interaction followed by the whole    *)
(* rerun of the script.                                                    *)
(*                                                                         *)
(* Money is held in one exact unit: a Mill is 1/1000 dollar and is split   *)
(* in GstDivisor parts, so that the script's divisions by 11 of 2-decimal  *)
(* amounts are exact in the model.                                         *)
(***************************************************************************)
EXTENDS Integers, Sequences, FiniteSets, TLC

VARIABLES
    cba_file,             \* uploaded Commonwealth table, NoFile when absent
    wise_file,            \* uploaded Wise table, NoFile when absent
    status,               \* how the last run of the script ended
    steps,                \* the stages the last run of the script completed
    ledger,               \* the classified ledger of the last run
    bas_quarter,          \* the detected quarter label
    edits,                \* the data_editor widget state: per-row cell overrides
    edited_df,            \* what st.data_editor returned
    income_gross,         \* G1
    gst_on_sales,         \* 1A
    gst_claimable_gross,  \* GST-claimable expenses
    gst_on_purchases,     \* 1B
    net_gst,              \* Net GST payable
    workbook,             \* the exported sheet's literal cells, << >> when none
    sheet_toggles,        \* flag cells a spreadsheet user changed in the export
    probe,                \* a (Direction, Description) row handed to classify
    result                \* the triple classify returned for probe

vars == <<cba_file, wise_file, status, steps, ledger, bas_quarter, edits,
          edited_df, income_gross, gst_on_sales, gst_claimable_gross,
          gst_on_purchases, net_gst, workbook, sheet_toggles, probe, result>>

-----------------------------------------------------------------------------
(* Bounds *)

\* most rows of the two statements together
MaxRows == 3

\* most cells a user changes, in the editor and in the exported sheet
MaxEdits == 2

\* most words of a description handed to classify on its own
MaxWords == 2

-----------------------------------------------------------------------------
(* Money *)

GstDivisor == 11

Mill == GstDivisor

Cent == 10 * Mill

Dollar == 100 * Cent

Abs(x) == IF x < 0 THEN -x ELSE x

\* Series.round(2) / the ":,.2f" format: nearest cent, an exact half to even.
Round2(x) ==
    LET q == x \div Cent
        r == x % Cent
    IN  IF 2 * r < Cent THEN q * Cent
        ELSE IF 2 * r > Cent THEN (q + 1) * Cent
        ELSE IF q % 2 = 0 THEN q * Cent ELSE (q + 1) * Cent

\* a list / Series / DataFrame built by a comprehension, held as its elements
Materialise(s) == s \o << >>

RECURSIVE SumSeq(_)
SumSeq(s) == IF s = << >> THEN 0 ELSE Head(s) + SumSeq(Tail(s))

-----------------------------------------------------------------------------
(* Text: a description is a sequence of one-character strings *)

UpperCase == <<"A","B","C","D","E","F","G","H","I","J","K","L","M",
               "N","O","P","Q","R","S","T","U","V","W","X","Y","Z">>

LowerCase == <<"a","b","c","d","e","f","g","h","i","j","k","l","m",
               "n","o","p","q","r","s","t","u","v","w","x","y","z">>

RECURSIVE Pairs(_)
Pairs(n) == IF n = 0 THEN << >>
            ELSE (UpperCase[n] :> LowerCase[n]) @@ Pairs(n - 1)

ToLower == Pairs(Len(UpperCase))

LowerChar(c) == IF c \in DOMAIN ToLower THEN ToLower[c] ELSE c

\* str.lower()
Lower(s) == Materialise([i \in DOMAIN s |-> LowerChar(s[i])])

\* Python's  k in desc : k matches character by character at some position
MatchAt(k, s, i) == \A j \in 1..Len(k) : s[i + j - 1] = k[j]

Contains(k, s) == \E i \in 1..(Len(s) - Len(k) + 1) : MatchAt(k, s, i)

KwTransfer == <<"t","r","a","n","s","f","e","r">>

FeeKeywords == << <<"f","e","e">>, <<"f","x">>, <<"a","s","i","c">>,
                  <<"a","t","o">>, <<"b","p","a","y">>, <<"t","a","x">> >>

-----------------------------------------------------------------------------
(* Classification logic *)

\* a plausible slip: the keyword rules tried before the direction rule
classify_KeywordsFirst(row) ==
    LET desc == Lower(row.Description)
    IN  IF Contains(KwTransfer, desc)
        THEN <<"Transfer", "NO", "Internal transfer">>
        ELSE IF \E i \in DOMAIN FeeKeywords : Contains(FeeKeywords[i], desc)
        THEN <<"Fee", "NO", "GST-free fee or government charge">>
        ELSE IF row.Direction = "IN"
        THEN <<"Income", "NO", "Income received">>
        ELSE <<"Expense", "YES", "Australian business expense - GST assumed">>

classify(row) ==
    LET desc == Lower(row.Description)
    IN  IF row.Direction = "IN"
        THEN <<"Income", "NO", "Income received">>
        ELSE IF Contains(KwTransfer, desc)
        THEN <<"Transfer", "NO", "Internal transfer">>
        ELSE IF \E i \in DOMAIN FeeKeywords : Contains(FeeKeywords[i], desc)
        THEN <<"Fee", "NO", "GST-free fee or government charge">>
        ELSE <<"Expense", "YES", "Australian business expense - GST assumed">>

-----------------------------------------------------------------------------
(* Raw cells of the uploaded tables *)

\* float NaN: what pandas holds for an empty numeric cell and for NaT.month
NaN == -1

\* Python's  a > b  and  a <= b  on floats: every comparison with NaN is False
FloatGt(a, b) == a # NaN /\ b # NaN /\ a > b

FloatLeq(a, b) == a # NaN /\ b # NaN /\ a <= b

NaT == [nat |-> TRUE, day |-> 0, month |-> 0]

\* a date cell: text "a/b/2024" in the Commonwealth file, "2024-a-b" in Wise
DateCell(a, b) == [ok |-> TRUE, a |-> a, b |-> b]

BadDate == [ok |-> FALSE, a |-> 0, b |-> 0]

\* an amount cell: a number, an empty cell, or text that is no number
Num(v) == [kind |-> "num", v |-> v]

Empty == [kind |-> "nan", v |-> 0]

Text == [kind |-> "str", v |-> 0]

\* pd.to_datetime(..., errors="coerce", dayfirst=True)
to_datetime_dayfirst(c) ==
    IF c.ok THEN [nat |-> FALSE, day |-> c.a, month |-> c.b] ELSE NaT

\* pd.to_datetime(..., errors="coerce") on an ISO timestamp
to_datetime(c) ==
    IF c.ok THEN [nat |-> FALSE, day |-> c.b, month |-> c.a] ELSE NaT

\* pd.to_numeric(..., errors="coerce").fillna(0)
to_numeric_fillna(c) == IF c.kind = "num" THEN c.v ELSE 0

\* pd.read_csv infers the column type: one cell of text makes the whole
\* Amount column a column of Python strings, otherwise it is float64
\* with NaN for the empty cells.
AmountColumnIsObject(tbl) == \E i \in DOMAIN tbl : tbl[i].Amount.kind = "str"

FloatOf(c) == IF c.kind = "num" THEN c.v ELSE NaN

-----------------------------------------------------------------------------
(* Input tables *)

Space == <<" ">>

WOffice == <<"O","f","f","i","c","e">>

WSupplies == <<"S","u","p","p","l","i","e","s">>

WClient == <<"C","l","i","e","n","t">>

WFee == <<"F","e","e">>

WRent == <<"R","e","n","t">>

WTransfer == <<"T","r","a","n","s","f","e","r">>

WATO == <<"A","T","O">>

WBPAY == <<"B","P","A","Y">>

WTax == <<"T","a","x">>

WPayment == <<"P","a","y","m","e","n","t">>

WRefund == <<"R","e","f","u","n","d">>

WASIC == <<"A","S","I","C">>

WFX == <<"F","X">>

WTrans == <<"T","r","a","n","s">>

WFer == <<"f","e","r">>

\* rows a Commonwealth statement can hold: Date, Amount, Description
\* (the Balance column is read and dropped)
CbaRows == <<
    [Date |-> DateCell(5, 1), Amount |-> Num(-110 * Dollar),
     Description |-> WOffice \o Space \o WSupplies],
    [Date |-> DateCell(2, 4), Amount |-> Num(500 * Dollar),
     Description |-> WClient \o Space \o WFee],
    [Date |-> BadDate, Amount |-> Num(-(25 * Dollar + 46 * Mill)),
     Description |-> WRent],
    [Date |-> DateCell(5, 1), Amount |-> Text,
     Description |-> WOffice],
    [Date |-> DateCell(7, 2), Amount |-> Empty,
     Description |-> WTransfer] >>

\* rows a Wise statement can hold: Finished on, Source name, Direction,
\* Target amount (after fees)
WiseRows == <<
    [Finished_on |-> DateCell(1, 20), Source_name |->
        WATO \o Space \o WBPAY \o Space \o WTax \o Space \o WPayment,
     Direction |-> "OUT", Target_amount |-> Num(80 * Dollar)],
    [Finished_on |-> DateCell(7, 15), Source_name |-> WClient,
     Direction |-> "IN", Target_amount |-> Num(250 * Dollar)],
    [Finished_on |-> BadDate, Source_name |-> WRefund,
     Direction |-> "NEUTRAL", Target_amount |-> Text] >>

\* the tables of 1..MaxRows rows taken in order from a list of rows
Picks(n) == {p \in UNION {[1..k -> 1..n] : k \in 1..MaxRows} :
                \A i \in DOMAIN p : \A j \in DOMAIN p : i < j => p[i] < p[j]}

TablesOf(rows) ==
    {Materialise([i \in DOMAIN p |-> rows[p[i]]]) : p \in Picks(Len(rows))}

CbaTables == TablesOf(CbaRows)

WiseTables == TablesOf(WiseRows)

NoFile == << >>

-----------------------------------------------------------------------------
(* Load & normalise data *)

\* if not cba_file or not wise_file: st.info(...); st.stop()
UploadGuard_And(cba, wise) == cba = NoFile /\ wise = NoFile

UploadGuard(cba, wise) == cba = NoFile \/ wise = NoFile

\* cba["Amount"].apply(lambda x: "IN" if x > 0 else "OUT") runs on the raw
\* column, before pd.to_numeric: on a column of strings  x > 0  raises
\* TypeError and the run ends there.
cba_raises(tbl) == AmountColumnIsObject(tbl)

cba_Direction(c) == IF FloatGt(FloatOf(c), 0) THEN "IN" ELSE "OUT"

cba_adapter(tbl) ==
    Materialise([i \in DOMAIN tbl |->
        [Date        |-> to_datetime_dayfirst(tbl[i].Date),
         Account     |-> "Commonwealth",
         Description |-> tbl[i].Description,
         Direction   |-> cba_Direction(tbl[i].Amount),
         Amount      |-> to_numeric_fillna(tbl[i].Amount)]])

wise_adapter(tbl) ==
    Materialise([i \in DOMAIN tbl |->
        [Date        |-> to_datetime(tbl[i].Finished_on),
         Account     |-> "Wise",
         Description |-> tbl[i].Source_name,
         Direction   |-> tbl[i].Direction,
         Amount      |-> to_numeric_fillna(tbl[i].Target_amount)]])

\* pd.concat([cba[...], wise[...]], ignore_index=True)
concat(cba, wise) == cba \o wise

-----------------------------------------------------------------------------
(* Determine BAS Quarter *)

month_to_quarter(m) ==
    IF FloatLeq(m, 3) THEN "Q1"
    ELSE IF FloatLeq(m, 6) THEN "Q2"
    ELSE IF FloatLeq(m, 9) THEN "Q3"
    ELSE "Q4"

\* ledger["Date"].dt.month : NaN for NaT
dt_month(d) == IF d.nat THEN NaN ELSE d.month

Quarters == <<"Q1", "Q2", "Q3", "Q4">>

Count(s, v) == Cardinality({i \in DOMAIN s : s[i] = v})

\* Series.mode().iloc[0]: the most frequent value, the smallest of them in
\* sorted order when several are equally frequent
mode_first(s) ==
    LET n == Materialise([k \in DOMAIN Quarters |-> Count(s, Quarters[k])])
        best(k) == \A j \in DOMAIN Quarters : n[j] <= n[k]
    IN  Quarters[CHOOSE k \in DOMAIN Quarters :
                     best(k) /\ \A j \in DOMAIN Quarters : best(j) => k <= j]

-----------------------------------------------------------------------------
(* Derived fields of the ledger *)

\* ledger["Amount"].abs().round(2), with the abs() forgotten
GrossAmount_NoAbs(amount) == Round2(amount)

\* ledger["Gross Amount"] = ledger["Amount"].abs().round(2)
GrossAmount(amount) == Round2(Abs(amount))

\* ledger["GST Amount"] = 0.0
GstAmountColumn(gross, flag) == 0

\* ledger["Net (ex GST)"] = ledger["Gross Amount"]
NetColumn(gross, flag) == gross

ClassifiedRow(r) ==
    LET c == classify(r)
        g == GrossAmount(r.Amount)
    IN  [Date |-> r.Date, Account |-> r.Account, Description |-> r.Description,
         Direction |-> r.Direction, Amount |-> r.Amount,
         Quarter |-> month_to_quarter(dt_month(r.Date)),
         Transaction_Type |-> c[1], GST_Claimable |-> c[2],
         System_Reason |-> c[3],
         Gross_Amount |-> g,
         GST_Amount |-> GstAmountColumn(g, c[2]),
         Net_ex_GST |-> NetColumn(g, c[2]),
         Comment |-> ""]

\* ledger["Quarter"]
QuarterColumn(ldg) == Materialise([i \in DOMAIN ldg |-> ldg[i].Quarter])

BuildLedger(cba, wise) ==
    LET rows == concat(cba_adapter(cba), wise_adapter(wise))
    IN  Materialise([i \in DOMAIN rows |-> ClassifiedRow(rows[i])])

-----------------------------------------------------------------------------
(* Editable ledger *)

\* the widget state of a ledger of n rows: "" (NaN in a number column) is a
\* cell the user left alone
NoEdit == [GST_Claimable |-> "", Comment |-> "", Transaction_Type |-> "",
           Gross_Amount |-> NaN]

\* the columns the model edits; the others accept edits in the same way
EditedColumns == {"GST_Claimable", "Comment", "Transaction_Type", "Gross_Amount"}

NoEdits(n) == [i \in 1..n |-> NoEdit]

EditedCells(ed) ==
    {cell \in (DOMAIN ed) \X EditedColumns : ed[cell[1]][cell[2]] # NoEdit[cell[2]]}

Pick(ed, ldg, i, col) == IF ed[i][col] = NoEdit[col] THEN ldg[i][col] ELSE ed[i][col]

\* st.data_editor(ledger.drop(columns=["Quarter"]), num_rows="fixed",
\*                column_config={"GST Claimable": ..., "Comment": ...})
\* No  disabled=  is passed, so every column accepts edits; column_config
\* only restricts the GST Claimable cells to the options YES and NO.
data_editor(ldg, ed) ==
    Materialise([i \in DOMAIN ldg |->
        [Date |-> ldg[i].Date, Account |-> ldg[i].Account,
         Description |-> ldg[i].Description, Direction |-> ldg[i].Direction,
         Amount |-> ldg[i].Amount,
         Transaction_Type |-> Pick(ed, ldg, i, "Transaction_Type"),
         GST_Claimable |-> Pick(ed, ldg, i, "GST_Claimable"),
         System_Reason |-> ldg[i].System_Reason,
         Gross_Amount |-> Pick(ed, ldg, i, "Gross_Amount"),
         GST_Amount |-> ldg[i].GST_Amount,
         Net_ex_GST |-> ldg[i].Net_ex_GST,
         Comment |-> Pick(ed, ldg, i, "Comment")]])

-----------------------------------------------------------------------------
(* GST summary *)

\* df.loc[df[col] == v, "Gross Amount"].sum()
GrossWhere(df, col, v) ==
    SumSeq(Materialise(
        [i \in DOMAIN df |-> IF df[i][col] = v THEN df[i].Gross_Amount ELSE 0]))

IncomeGross(df) == GrossWhere(df, "Transaction_Type", "Income")

\* income_gross / 11, rounded before it is kept
GstOnSales_Rounded(g) == Round2(g \div GstDivisor)

\* gst_on_sales = income_gross / 11
GstOnSales(g) == g \div GstDivisor

GstClaimableGross(df) == GrossWhere(df, "GST_Claimable", "YES")

\* gst_on_purchases = gst_claimable_gross / 11
GstOnPurchases(g) == g \div GstDivisor

\* net_gst = gst_on_sales - gst_on_purchases
NetGst(sales, purchases) == sales - purchases

\* f"${value:,.2f}" on a metric card
Shown(value) == Round2(value)

-----------------------------------------------------------------------------
(* Excel export: the formulas export_excel writes, evaluated on a sheet *)

\* =IF(flag_r="YES", gross_r/11, 0)
XlGstAmount(wb, r) ==
    IF wb[r].GST_Claimable = "YES" THEN wb[r].Gross_Amount \div GstDivisor ELSE 0

\* =gross_r - gst_r
XlNet(wb, r) == wb[r].Gross_Amount - XlGstAmount(wb, r)

\* =SUMIF(type2:typeN, "Income", gross2:grossN)
XlG1(wb) == GrossWhere(wb, "Transaction_Type", "Income")

\* =B{s+2}/11
Xl1A(wb) == XlG1(wb) \div GstDivisor

\* =SUMIF(flag2:flagN, "YES", gross2:grossN)
XlClaimableGross(wb) == GrossWhere(wb, "GST_Claimable", "YES")

\* =SUMIF(flag2:flagN, "YES", gst2:gstN)
Xl1B(wb) ==
    SumSeq(Materialise([r \in DOMAIN wb |->
               IF wb[r].GST_Claimable = "YES" THEN XlGstAmount(wb, r) ELSE 0]))

\* =B{s+3}-B{s+5}
XlNetGst(wb) == Xl1A(wb) - Xl1B(wb)

\* df.to_excel(writer, ...): the literal cells of the sheet
export_excel(df) == df

-----------------------------------------------------------------------------
(* One run of the script *)

AllSteps == {"cba", "wise", "ledger", "quarter", "classify", "editor",
             "summary", "export"}

\* how far the script gets on the two uploads
RunStatus(cba, wise) ==
    IF UploadGuard(cba, wise) THEN "stopped"
    ELSE IF cba = NoFile \/ cba_raises(cba) THEN "error"
    ELSE IF wise = NoFile THEN "error"
    ELSE "rendered"

RunSteps(cba, wise) ==
    IF UploadGuard(cba, wise) THEN {}
    ELSE IF cba = NoFile \/ cba_raises(cba) THEN {}
    ELSE IF wise = NoFile THEN {"cba"}
    ELSE AllSteps

\* everything below the editor, for the widget state ed
Render(ed) ==
    /\ edits' = ed
    /\ edited_df' = data_editor(ledger', ed)
    /\ income_gross' = IncomeGross(edited_df')
    /\ gst_on_sales' = GstOnSales(income_gross')
    /\ gst_claimable_gross' = GstClaimableGross(edited_df')
    /\ gst_on_purchases' = GstOnPurchases(gst_claimable_gross')
    /\ net_gst' = NetGst(gst_on_sales', gst_on_purchases')
    /\ workbook' = export_excel(edited_df')
    /\ sheet_toggles' = 0

Blank ==
    /\ ledger' = << >>
    /\ bas_quarter' = ""
    /\ edits' = << >>
    /\ edited_df' = << >>
    /\ income_gross' = 0
    /\ gst_on_sales' = 0
    /\ gst_claimable_gross' = 0
    /\ gst_on_purchases' = 0
    /\ net_gst' = 0
    /\ workbook' = << >>
    /\ sheet_toggles' = 0

\* the rerun after the uploads changed: the editor is a new widget
RunScript ==
    /\ status' = RunStatus(cba_file', wise_file')
    /\ steps' = RunSteps(cba_file', wise_file')
    /\ IF status' = "rendered"
       THEN /\ ledger' = BuildLedger(cba_file', wise_file')
            /\ \E quarter \in {QuarterColumn(ledger')} :
                   bas_quarter' = mode_first(quarter)
            /\ Render(NoEdits(Len(ledger')))
       ELSE Blank

\* the rerun after a cell edit: same uploads, new widget state
Rerun(ed) ==
    /\ UNCHANGED <<cba_file, wise_file>>
    /\ status' = RunStatus(cba_file, wise_file)
    /\ steps' = RunSteps(cba_file, wise_file)
    /\ ledger' = BuildLedger(cba_file, wise_file)
    /\ \E quarter \in {QuarterColumn(ledger')} :
           bas_quarter' = mode_first(quarter)
    /\ Render(ed)

-----------------------------------------------------------------------------
(* Interactions *)

UploadCba(tbl) ==
    /\ cba_file = NoFile
    /\ Len(tbl) + Len(wise_file) <= MaxRows
    /\ cba_file' = tbl
    /\ UNCHANGED <<wise_file, probe, result>>
    /\ RunScript

UploadWise(tbl) ==
    /\ wise_file = NoFile
    /\ Len(cba_file) + Len(tbl) <= MaxRows
    /\ wise_file' = tbl
    /\ UNCHANGED <<cba_file, probe, result>>
    /\ RunScript

RemoveCba ==
    /\ cba_file # NoFile
    /\ cba_file' = NoFile
    /\ UNCHANGED <<wise_file, probe, result>>
    /\ RunScript

RemoveWise ==
    /\ wise_file # NoFile
    /\ wise_file' = NoFile
    /\ UNCHANGED <<cba_file, probe, result>>
    /\ RunScript

CanEdit(i, col) ==
    /\ status = "rendered"
    /\ i \in DOMAIN edits
    /\ \/ <<i, col>> \in EditedCells(edits)
       \/ Cardinality(EditedCells(edits)) + sheet_toggles < MaxEdits

EditClaimable(i, v) ==
    /\ CanEdit(i, "GST_Claimable")
    /\ Rerun([edits EXCEPT ![i].GST_Claimable = v])
    /\ UNCHANGED <<probe, result>>

EditComment(i, c) ==
    /\ CanEdit(i, "Comment")
    /\ Rerun([edits EXCEPT ![i].Comment = c])
    /\ UNCHANGED <<probe, result>>

EditTransactionType(i, t) ==
    /\ CanEdit(i, "Transaction_Type")
    /\ Rerun([edits EXCEPT ![i].Transaction_Type = t])
    /\ UNCHANGED <<probe, result>>

EditGrossAmount(i, g) ==
    /\ CanEdit(i, "Gross_Amount")
    /\ Rerun([edits EXCEPT ![i].Gross_Amount = g])
    /\ UNCHANGED <<probe, result>>

\* a spreadsheet user picks the other value in a GST Claimable cell of the
\* exported sheet
ToggleSheetFlag(r) ==
    /\ r \in DOMAIN workbook
    /\ Cardinality(EditedCells(edits)) + sheet_toggles < MaxEdits
    /\ workbook' = [workbook EXCEPT ![r].GST_Claimable =
                       IF @ = "YES" THEN "NO" ELSE "YES"]
    /\ sheet_toggles' = sheet_toggles + 1
    /\ UNCHANGED <<cba_file, wise_file, status, steps, ledger, bas_quarter,
                   edits, edited_df, income_gross, gst_on_sales,
                   gst_claimable_gross, gst_on_purchases, net_gst, probe, result>>

NoProbe == [Direction |-> "", Description |-> << >>]

Init ==
    /\ cba_file = NoFile
    /\ wise_file = NoFile
    /\ status = "stopped"
    /\ steps = {}
    /\ ledger = << >>
    /\ bas_quarter = ""
    /\ edits = << >>
    /\ edited_df = << >>
    /\ income_gross = 0
    /\ gst_on_sales = 0
    /\ gst_claimable_gross = 0
    /\ gst_on_purchases = 0
    /\ net_gst = 0
    /\ workbook = << >>
    /\ sheet_toggles = 0
    /\ probe = NoProbe
    /\ result = << >>

RowIds == 1..MaxRows

Comments == {"private"}

Next ==
    \/ \E tbl \in CbaTables : UploadCba(tbl)
    \/ \E tbl \in WiseTables : UploadWise(tbl)
    \/ RemoveCba
    \/ RemoveWise
    \/ \E i \in RowIds : \E v \in {"YES", "NO"} : EditClaimable(i, v)
    \/ \E i \in RowIds : \E c \in Comments : EditComment(i, c)
    \/ \E i \in RowIds : \E t \in {"Income"} : EditTransactionType(i, t)
    \/ \E i \in RowIds : \E g \in {1 * Dollar} : EditGrossAmount(i, g)
    \/ \E r \in RowIds : ToggleSheetFlag(r)

Spec == Init /\ [][Next]_vars

-----------------------------------------------------------------------------
(* classify on its own: every (Direction, Description) of the probe sets *)

ProbeWords == {WOffice, WRent, WTransfer, WFee, WATO, WBPAY, WTax, WASIC,
               WFX, WTrans, WFer}

Directions == {"IN", "OUT", "NEUTRAL"}

RECURSIVE Flatten(_)
Flatten(ws) == IF ws = << >> THEN << >> ELSE Head(ws) \o Flatten(Tail(ws))

ProbeDescriptions ==
    {Flatten(ws) : ws \in UNION {[1..k -> ProbeWords] : k \in 1..MaxWords}}

Probes == [Direction : Directions, Description : ProbeDescriptions]

InitClassify ==
    /\ cba_file = NoFile
    /\ wise_file = NoFile
    /\ status = "stopped"
    /\ steps = {}
    /\ ledger = << >>
    /\ bas_quarter = ""
    /\ edits = << >>
    /\ edited_df = << >>
    /\ income_gross = 0
    /\ gst_on_sales = 0
    /\ gst_claimable_gross = 0
    /\ gst_on_purchases = 0
    /\ net_gst = 0
    /\ workbook = << >>
    /\ sheet_toggles = 0
    /\ probe \in Probes
    /\ result = << >>

ClassifyProbe ==
    /\ result = << >>
    /\ result' = classify(probe)
    /\ UNCHANGED <<cba_file, wise_file, status, steps, ledger, bas_quarter,
                   edits, edited_df, income_gross, gst_on_sales,
                   gst_claimable_gross, gst_on_purchases, net_gst, workbook,
                   sheet_toggles, probe>>

NextClassify == ClassifyProbe

SpecClassify == InitClassify /\ [][NextClassify]_vars

-----------------------------------------------------------------------------
(* Properties *)

Rendered == status = "rendered"

\* the user has overridden nothing but claim flags and comments
OnlyClaimOverrides ==
    \A cell \in EditedCells(edits) : cell[2] \in {"GST_Claimable", "Comment"}

RECURSIVE SumOver(_, _)
SumOver(S, f) ==
    IF S = {} THEN 0
    ELSE LET x == CHOOSE y \in S : TRUE IN f[x] + SumOver(S \ {x}, f)

GrossOf(df) == [i \in DOMAIN df |-> df[i].Gross_Amount]

TaxOf(df) == [i \in DOMAIN df |-> df[i].GST_Amount]

IncomeRows(df) == {i \in DOMAIN df : df[i].Transaction_Type = "Income"}

ClaimableRows(df) == {i \in DOMAIN df : df[i].GST_Claimable = "YES"}

\* k occurs in s: s is some prefix, then k, then some suffix
HasSubstring(s, k) ==
    \E i \in 0..Len(s) : \E j \in i..Len(s) : SubSeq(s, i + 1, j) = k

\* C1: for every record of the ledger, right after classification and after
\* any overrides of the claim flag or the comment, tax_amount + net_amount =
\* gross_amount to 2-decimal precision, and gross_amount >= 0.
C1_TaxPlusNetIsGross ==
    (Rendered /\ OnlyClaimOverrides) =>
        \A i \in DOMAIN ledger :
            /\ Round2(ledger[i].GST_Amount + ledger[i].Net_ex_GST)
                   = Round2(ledger[i].Gross_Amount)
            /\ ledger[i].Gross_Amount >= 0
            /\ Round2(edited_df[i].GST_Amount + edited_df[i].Net_ex_GST)
                   = Round2(edited_df[i].Gross_Amount)
            /\ edited_df[i].Gross_Amount >= 0

\* C1 witness: an OUT record with a negative amount, classified claimable and
\* overridden to NO by the user.
C1_Witness ==
    /\ Rendered
    /\ OnlyClaimOverrides
    /\ \E i \in DOMAIN ledger :
           /\ ledger[i].Amount < 0
           /\ ledger[i].GST_Claimable = "YES"
           /\ edits[i].GST_Claimable = "NO"
           /\ edited_df[i].GST_Claimable = "NO"

\* C2 (as claimed): after classification and after every override, each
\* record has tax_amount = round(gross_amount / 11, 2) when its claim flag is
\* YES and 0 otherwise, and net_amount = gross_amount - tax_amount.
C2_TaxFieldRule ==
    (Rendered /\ OnlyClaimOverrides) =>
        \A i \in DOMAIN edited_df :
            LET r == edited_df[i]
                tax == IF r.GST_Claimable = "YES"
                       THEN Round2(r.Gross_Amount \div GstDivisor) ELSE 0
            IN  /\ r.GST_Amount = tax
                /\ r.Net_ex_GST = r.Gross_Amount - tax

\* C3: classify is total and first-match-wins: IN gives Income whatever the
\* description; otherwise "transfer" in the lower-cased description gives
\* Transfer; otherwise one of fee, fx, asic, ato, bpay, tax gives Fee;
\* otherwise Expense; exactly one category, and only Expense is claimable.
C3_ClassifyRules ==
    result # << >> =>
        LET d == Lower(probe.Description)
            incoming == probe.Direction = "IN"
            transfer == HasSubstring(d, KwTransfer)
            keyword == \E k \in DOMAIN FeeKeywords : HasSubstring(d, FeeKeywords[k])
        IN  /\ result[1] \in {"Income", "Transfer", "Fee", "Expense"}
            /\ incoming => result = <<"Income", "NO", "Income received">>
            /\ (~incoming /\ transfer) =>
                   result = <<"Transfer", "NO", "Internal transfer">>
            /\ (~incoming /\ ~transfer /\ keyword) =>
                   result = <<"Fee", "NO", "GST-free fee or government charge">>
            /\ (~incoming /\ ~transfer /\ ~keyword) =>
                   /\ result[1] = "Expense"
                   /\ result[2] = "YES"
            /\ result[2] \in {"YES", "NO"}
            /\ result[2] = "YES" <=> result[1] = "Expense"

\* C3 witness: an IN record whose description contains "fee" and "transfer"
\* has been classified Income.
C3_Witness ==
    /\ result # << >>
    /\ probe.Direction = "IN"
    /\ HasSubstring(Lower(probe.Description), FeeKeywords[1])
    /\ HasSubstring(Lower(probe.Description), KwTransfer)
    /\ result[1] = "Income"

\* C4 (as claimed): whatever the user edits, every record keeps the
\* category, rationale, date, account, description, direction and amount it
\* got at classification, and the rows stay the same in number and order.
C4_ReviewFrame ==
    Rendered =>
        /\ Len(edited_df) = Len(ledger)
        /\ \A i \in DOMAIN ledger :
               /\ edited_df[i].Transaction_Type = ledger[i].Transaction_Type
               /\ edited_df[i].System_Reason = ledger[i].System_Reason
               /\ edited_df[i].Date = ledger[i].Date
               /\ edited_df[i].Account = ledger[i].Account
               /\ edited_df[i].Description = ledger[i].Description
               /\ edited_df[i].Direction = ledger[i].Direction
               /\ edited_df[i].Amount = ledger[i].Amount

C6_PurchasesFromTaxFields ==
    Rendered =>
        /\ gst_on_purchases = SumOver(ClaimableRows(edited_df), TaxOf(edited_df))
        /\ gst_claimable_gross
               = SumOver(ClaimableRows(edited_df), GrossOf(edited_df))

\* the quarter of a month by the fixed boundaries
QuarterOfMonth(m) == Quarters[((m - 1) \div 3) + 1]

DatedRows == {i \in DOMAIN ledger : ~ledger[i].Date.nat}

DatedCount(q) ==
    Cardinality({i \in DatedRows : QuarterOfMonth(ledger[i].Date.month) = q})

\* C7 (as claimed): the batch quarter is a most frequent quarter among the
\* records that have a date; records with a null date count for no quarter.
C7_QuarterIgnoresNullDates ==
    (Rendered /\ DatedRows # {}) =>
        \A k \in DOMAIN Quarters : DatedCount(Quarters[k]) <= DatedCount(bas_quarter)

\* C8 (as claimed): a malformed cell never aborts the batch: every
\* Commonwealth row is in the ledger, an unparseable amount has become 0, and
\* the direction is IN exactly when the coerced amount is above 0.
C8_MalformedCellAbsorbed ==
    (cba_file # NoFile /\ wise_file # NoFile) =>
        /\ Rendered
        /\ Len(ledger) = Len(cba_file) + Len(wise_file)
        /\ \A i \in DOMAIN cba_file :
               /\ cba_file[i].Amount.kind # "num" => ledger[i].Amount = 0
               /\ ledger[i].Direction = IF ledger[i].Amount > 0 THEN "IN" ELSE "OUT"

\* C9: with one or both uploads absent the script stops at the guard: no
\* stage runs and nothing is exported; an export exists only in a run that
\* had both uploads.
C9_NothingRunsWithoutBothFiles ==
    /\ (cba_file = NoFile \/ wise_file = NoFile) =>
           /\ status = "stopped"
           /\ steps = {}
           /\ ledger = << >>
           /\ edited_df = << >>
           /\ workbook = << >>
    /\ (workbook # << >> \/ "export" \in steps) =>
           (cba_file # NoFile /\ wise_file # NoFile)

\* C9 witness: one statement uploaded, the other absent, the script stopped.
C9_Witness ==
    /\ cba_file # NoFile
    /\ wise_file = NoFile
    /\ status = "stopped"

\* C10 (as claimed): the exported formulas give, per row, tax =
\* round(gross / 11, 2) for a YES flag and 0 otherwise and net = gross - tax;
\* in the summary 1A = round(G1 / 11, 2), 1B = the sum of the row tax over
\* the YES rows, net payable = 1A - 1B (on the values or as shown in the
\* currency format); and they equal the figures on screen for the same
\* record set.
C10_ExportMatchesCalculator ==
    workbook # << >> =>
        LET wb == workbook
            rule(r) == IF wb[r].GST_Claimable = "YES"
                       THEN Round2(wb[r].Gross_Amount \div GstDivisor) ELSE 0
        IN  /\ \/ \A r \in DOMAIN wb :
                      /\ XlGstAmount(wb, r) = rule(r)
                      /\ XlNet(wb, r) = wb[r].Gross_Amount - rule(r)
               \/ \A r \in DOMAIN wb :
                      /\ Shown(XlGstAmount(wb, r)) = rule(r)
                      /\ Shown(XlNet(wb, r)) = wb[r].Gross_Amount - rule(r)
            /\ XlG1(wb) = SumOver(IncomeRows(wb), GrossOf(wb))
            /\ XlClaimableGross(wb) = SumOver(ClaimableRows(wb), GrossOf(wb))
            /\ \/ /\ Xl1A(wb) = Round2(XlG1(wb) \div GstDivisor)
                  /\ Xl1B(wb) = SumOver(ClaimableRows(wb),
                                        [r \in DOMAIN wb |-> XlGstAmount(wb, r)])
                  /\ XlNetGst(wb) = Xl1A(wb) - Xl1B(wb)
               \/ /\ Shown(Xl1A(wb)) = Round2(XlG1(wb) \div GstDivisor)
                  /\ Shown(Xl1B(wb)) = SumOver(ClaimableRows(wb),
                                        [r \in DOMAIN wb |-> Shown(XlGstAmount(wb, r))])
                  /\ Shown(XlNetGst(wb)) = Shown(Xl1A(wb)) - Shown(Xl1B(wb))
            /\ sheet_toggles = 0 =>
                   /\ XlG1(wb) = income_gross
                   /\ Xl1A(wb) = gst_on_sales
                   /\ XlClaimableGross(wb) = gst_claimable_gross
                   /\ Xl1B(wb) = gst_on_purchases
                   /\ XlNetGst(wb) = net_gst
                   /\ \A r \in DOMAIN wb :
                          /\ XlGstAmount(wb, r) = edited_df[r].GST_Amount
                          /\ XlNet(wb, r) = edited_df[r].Net_ex_GST

====
